---------------------------- MODULE Spec2Model ----------------------------
(***************************************************************************)
(* A model of cryptotrader/agents/apriori.py: the a-priori trading agents  *)
(* (step counter, rebalance, set_params, the test loop) and the            *)
(* hyperparameter search loop APrioriAgent.fit.                            *)
(*                                                                         *)
(* SpecFit    : one call of APrioriAgent.fit, with operator interrupts.    *)
(* SpecParams : an agent of any class, with direct calls of rebalance and  *)
(*              set_params.                                                *)
(* SpecTest   : an agent of any class, with direct calls of rebalance and  *)
(*              runs of the test loop.                                     *)
(* SpecPredict: an agent of any class, with direct calls of rebalance and  *)
(*              predict.                                                   *)
(* SpecRules  : one call of an update rule (PAMR.update, AdaHedge.update,  *)
(*              HarmonicTrader.find_pattern) on inputs drawn from bounded  *)
(*              sets.                                                      *)
(***************************************************************************)
EXTENDS Integers, Sequences, FiniteSets, TLC

(***************************************************************************)
(* Bounds of the model.                                                    *)
(***************************************************************************)
\* number of distinct parameter sets the optimizer can sample
NumCand == 2
\* largest evaluation budget nb_steps handed to fit
MaxNbSteps == 2
\* batch_size handed to fit: episodes per evaluation
BatchSize == 2
\* episode rewards are drawn from 1..MaxReward
MaxReward == 2

\* most updates made on one agent of an update rule that is called
\* repeatedly (Flipflop, OGS)
MaxUpdates == 4

\* longest open-price series handed to HarmonicTrader.find_pattern
MaxSeriesLen == 6

\* number of symbols of an observation, the fiat symbol last
NPairs == 3
\* largest nb_max_episode_steps handed to test
MaxEpisodeSteps == 2

(***************************************************************************)
(* Program constants.                                                      *)
(***************************************************************************)
\* @ot.constraints.violations_defaulted(-100)
ViolationDefault == -100
\* the optimizer's own default for a sample outside its hard box
\* constraints; any value below every reward and different from -100
BoxDefault == -1000

VARIABLES
    \* ---- APrioriAgent.fit ----
    training,              \* env.training
    pc,                    \* position of control inside fit
    nb_steps,              \* evaluation budget of this call
    feasible,              \* the parameter sets the constraints accept
    i,                     \* the nonlocal evaluation counter of find_hp
    optimization_rewards,  \* the buffer of batch rewards
    call_log,              \* the optimizer's log of <<sample, objective>>
    batch_log,             \* for each logged sample, the batch it was computed from
    cand,                  \* the sample being evaluated (0: none)
    batch,                 \* <<sum, count>> of the rewards of the running batch
    params,                \* the strategy's hyperparameters, [a, b]
    opt_params,            \* local opt_params of fit (0: unbound)
    info,                  \* local info of fit
    result,                \* how control left fit
    interrupted,           \* a KeyboardInterrupt was raised during this call
    \* ---- one agent ----
    cls,                   \* the agent's class
    step,                  \* self.step
    hp,                    \* the agent's hyperparameter attributes
    sub_step,              \* Pipeline: <<self.factor.step, self.risk.step>>
    out,                   \* outcome of the last rebalance call, and the step it was made at
    sp,                    \* outcome of the last set_params call
    pred,                  \* the last predict call: its observation and its result
    \* ---- TestAgent.test ----
    tpc,                   \* position of control inside test
    nb_max_episode_steps,  \* episode length limit of the running test
    episode_reward,        \* product of the rewards so far
    env_steps,             \* env.step calls made in the running episode
    test_result,           \* how control left test
    status,                \* what the last call made by the loop came back with
    \* ---- one call of an update rule ----
    rule_call              \* the rule, its arguments and its result

fitVars == <<training, pc, nb_steps, feasible, i, optimization_rewards,
             call_log, batch_log, cand, batch, params, opt_params, info, result,
             interrupted>>

agentVars == <<cls, step, hp, sub_step, out, sp, pred>>

testVars == <<tpc, nb_max_episode_steps, episode_reward, env_steps, test_result,
              status>>

ruleVars == <<rule_call>>

vars == <<fitVars, agentVars, testVars, ruleVars>>

(***************************************************************************)
(* Values.  An objective value is a fraction <<numerator, denominator>>.   *)
(***************************************************************************)
Candidates == 1..NumCand
Rewards == 1..MaxReward
Unbound == 0
NoParams == [a |-> 0, b |-> 0]

\* np.mean of the episode rewards of a batch, as a fraction
Mean(sum, n) == <<sum, n>>
Whole(x) == <<x, 1>>
Less(x, y) == x[1] * y[2] < y[1] * x[2]

RECURSIVE SeqSum(_)
SeqSum(s) == IF s = <<>> THEN 0 ELSE Head(s) + SeqSum(Tail(s))

\* the keyword arguments a sampled parameter set stands for
KwargsOf(c) == [a |-> c, b |-> c]

\* index of the first entry of the log with the largest objective:
\* max(enumerate(call_log.values()), key=itemgetter(1))
BestIndex(log) ==
    CHOOSE k \in 1..Len(log) :
        /\ \A j \in 1..Len(log) : ~Less(log[k][2], log[j][2])
        /\ \A j \in 1..(k - 1) : Less(log[j][2], log[k][2])

Best(log) == log[BestIndex(log)][1]

(***************************************************************************)
(* Exact arithmetic.  A number is a reduced fraction <<n, d>> with d > 0;  *)
(* a vector is a sequence of numbers.                                      *)
(***************************************************************************)
Abs(n) == IF n < 0 THEN -n ELSE n

RECURSIVE GCD(_, _)
GCD(a, b) == IF b = 0 THEN a ELSE GCD(b, a % b)

R(n, d) ==
    LET g == GCD(Abs(n), Abs(d))
        s == IF d < 0 THEN -1 ELSE 1
    IN  <<(s * n) \div g, (s * d) \div g>>

Zero == <<0, 1>>
One == <<1, 1>>
RAdd(x, y) == R(x[1] * y[2] + y[1] * x[2], x[2] * y[2])
RSub(x, y) == R(x[1] * y[2] - y[1] * x[2], x[2] * y[2])
RMul(x, y) == R(x[1] * y[1], x[2] * y[2])
RDiv(x, y) == R(x[1] * y[2], x[2] * y[1])
\* comparison by whole parts first, so that a large bound such as 100000
\* is compared without multiplying it out
Floor(x) == x[1] \div x[2]
Frac(x) == <<x[1] % x[2], x[2]>>
RLess(x, y) ==
    \/ Floor(x) < Floor(y)
    \/ /\ Floor(x) = Floor(y)
       /\ Frac(x)[1] * y[2] < Frac(y)[1] * x[2]
RLeq(x, y) == ~RLess(y, x)
RMax(x, y) == IF RLess(x, y) THEN y ELSE x
RMin(x, y) == IF RLess(y, x) THEN y ELSE x

\* utils.safe_div: the quotient, and 0 when the denominator is zero
safe_div(x, y) == IF y[1] = 0 THEN Zero ELSE RDiv(x, y)

RECURSIVE VSum(_)
VSum(v) == IF v = <<>> THEN Zero ELSE RAdd(Head(v), VSum(Tail(v)))

RECURSIVE Dot(_, _)
Dot(v, w) == IF v = <<>> THEN Zero
             ELSE RAdd(RMul(Head(v), Head(w)), Dot(Tail(v), Tail(w)))

\* np.ones(n), np.zeros(n)
Ones(n) == [k \in 1..n |-> One]
Zeros(n) == [k \in 1..n |-> Zero]

\* utils.array_normalize: the vector divided by the sum of its entries
array_normalize(v) == [k \in 1..Len(v) |-> safe_div(v[k], VSum(v))]

\* the vector sorted in descending order
RECURSIVE Insert(_, _)
Insert(x, v) ==
    IF v = <<>> THEN <<x>>
    ELSE IF RLeq(Head(v), x) THEN <<x>> \o v
    ELSE <<Head(v)>> \o Insert(x, Tail(v))

RECURSIVE SortDesc(_)
SortDesc(v) == IF v = <<>> THEN <<>> ELSE Insert(Head(v), SortDesc(Tail(v)))

\* np.cumsum
CumSum(v) == [k \in 1..Len(v) |-> VSum(SubSeq(v, 1, k))]

\* utils.simplex_proj: Euclidean projection onto the probability simplex
simplex_proj(v) ==
    LET n == Len(v)
        u == SortDesc(v)
        css == CumSum(u)
        ok(j) == RLess(Zero, RAdd(u[j], RDiv(RSub(One, css[j]), <<j, 1>>)))
        rho == CHOOSE j \in 1..n : ok(j) /\ \A m \in (j + 1)..n : ~ok(m)
        tau == RDiv(RSub(css[rho], One), <<rho, 1>>)
    IN  [k \in 1..n |-> RMax(RSub(v[k], tau), Zero)]

\* a valid portfolio: non-negative entries that sum to 1
IsSimplex(v) == /\ \A k \in 1..Len(v) : RLeq(Zero, v[k])
                /\ VSum(v) = One

(***************************************************************************)
(* find_hp and its two decorators (lines 117-119).  The decorator written  *)
(* first is applied last, so `constrained` wraps `violations_defaulted`.   *)
(***************************************************************************)
\* The outcome of a call: the body runs, a value is returned, or an
\* exception is raised.
Body == [tag |-> "body", val |-> <<0, 1>>]
Value(v) == [tag |-> "value", val |-> v]
ConstraintViolation == [tag |-> "ConstraintViolation", val |-> <<0, 1>>]

\* ot.constraints.violations_defaulted(default)(f): f's outcome, with a
\* ConstraintViolation raised by f replaced by the default
ViolationsDefaulted(default, inner) ==
    IF inner = ConstraintViolation THEN Value(Whole(default)) ELSE inner

\* ot.constraints.constrained(constraints)(f): raises ConstraintViolation
\* without calling f when a constraint rejects the arguments
Constrained(ok, inner) ==
    IF ~ok THEN ConstraintViolation ELSE inner

\* what calling the decorated find_hp with sample c starts with: the body
\* is entered, or the call ends at once with an exception or a value
FindHpCall(c, ok) ==
    Constrained(ok, ViolationsDefaulted(ViolationDefault, Body))

\* a find_hp that hands back the running mean of all batch rewards, the
\* np.mean(optimization_rewards) of line 153, in place of r
RunningMean(r, rewards) ==
    <<SeqSum([k \in 1..Len(rewards) |-> rewards[k][1]]), BatchSize * Len(rewards)>>

\* the value find_hp hands back for a completed batch: `return r`
FindHpValue(r, rewards) == r

\* a fit that skips line 190 and leaves the last sampled set in place
LastSampled(best, last) == last

\* the parameter set of the set_params call on line 190
FinalParams(best, last) == best

(***************************************************************************)
(* Init of a call of fit.                                                  *)
(***************************************************************************)
InitFit ==
    /\ training = FALSE
    /\ pc = "idle"
    /\ nb_steps \in 1..MaxNbSteps
    /\ feasible \in {Candidates, Candidates \ {NumCand}}
    /\ i = 0
    /\ optimization_rewards = <<>>
    /\ call_log = <<>>
    /\ batch_log = <<>>
    /\ cand = 0
    /\ batch = <<0, 0>>
    /\ params = NoParams
    /\ opt_params = Unbound
    /\ info = <<>>
    /\ result = [kind |-> "none"]
    /\ interrupted = FALSE

Leave(r) ==
    /\ pc' = "exit"
    /\ result' = r

Raise(exc) == Leave([kind |-> "raise", exc |-> exc])

\* lines 88-95: env.training = True; i = 0
FitEnter ==
    /\ pc = "idle"
    /\ training' = TRUE
    /\ i' = 0
    /\ pc' = "benchmark"
    /\ UNCHANGED <<nb_steps, interrupted, feasible, optimization_rewards, call_log, batch_log,
                   cand, batch, params, opt_params, info, result>>
    /\ UNCHANGED <<agentVars, testVars, ruleVars>>

\* line 98: env.optimize_benchmark returns
OptimizeBenchmark ==
    /\ pc = "benchmark"
    /\ pc' = "optimizer"
    /\ UNCHANGED <<training, nb_steps, interrupted, feasible, i, optimization_rewards, call_log,
                   batch_log, cand, batch, params, opt_params, info, result>>
    /\ UNCHANGED <<agentVars, testVars, ruleVars>>

\* line 98: env.optimize_benchmark raises
OptimizeBenchmarkRaises ==
    /\ pc = "benchmark"
    /\ Raise("Exception")
    /\ UNCHANGED <<training, nb_steps, interrupted, feasible, i, optimization_rewards, call_log,
                   batch_log, cand, batch, params, opt_params, info>>
    /\ UNCHANGED <<agentVars, testVars, ruleVars>>

\* a KeyboardInterrupt reaches the handler of fit (line 198)
InterruptFit(at) ==
    /\ pc = at
    /\ pc' = "except_ki"
    /\ interrupted' = TRUE
    /\ UNCHANGED <<training, nb_steps, feasible, i, optimization_rewards, call_log,
                   batch_log, cand, batch, params, opt_params, info, result>>
    /\ UNCHANGED <<agentVars, testVars, ruleVars>>

\* a KeyboardInterrupt reaches the handler of find_hp (line 161)
InterruptFindHp(at) ==
    /\ pc = at
    /\ pc' = "hp_except"
    /\ interrupted' = TRUE
    /\ UNCHANGED <<training, nb_steps, feasible, i, optimization_rewards, call_log,
                   batch_log, cand, batch, params, opt_params, info, result>>
    /\ UNCHANGED <<agentVars, testVars, ruleVars>>

\* ot.maximize_structured (line 184) samples a parameter set and calls the
\* decorated find_hp with it
Sample(c) ==
    /\ pc = "optimizer"
    /\ Len(call_log) < nb_steps
    /\ cand' = c
    /\ batch' = <<0, 0>>
    /\ LET call == FindHpCall(c, c \in feasible) IN
         CASE call.tag = "body" ->
                /\ pc' = "hp_set_a"
                /\ UNCHANGED <<call_log, batch_log>>
           [] call.tag = "value" ->
                /\ pc' = "optimizer"
                /\ call_log' = Append(call_log, <<c, call.val>>)
                /\ batch_log' = Append(batch_log, <<0, 0>>)
           [] OTHER ->
                /\ pc' = "violation"
                /\ UNCHANGED <<call_log, batch_log>>
    /\ UNCHANGED <<training, nb_steps, interrupted, feasible, i, optimization_rewards, params,
                   opt_params, info, result>>
    /\ UNCHANGED <<agentVars, testVars, ruleVars>>

\* the ConstraintViolation raised by the outer `constrained` wrapper leaves
\* find_hp; the optimizer lets it through and fit is left by it
ViolationEscapes ==
    /\ pc = "violation"
    /\ Raise("ConstraintViolation")
    /\ UNCHANGED <<training, nb_steps, interrupted, feasible, i, optimization_rewards, call_log,
                   batch_log, cand, batch, params, opt_params, info>>
    /\ UNCHANGED <<agentVars, testVars, ruleVars>>

\* ... or the optimizer's own box-constraint wrapper catches it and scores
\* the sample with its own default
ViolationBoxDefaulted ==
    /\ pc = "violation"
    /\ pc' = "optimizer"
    /\ call_log' = Append(call_log, <<cand, Whole(BoxDefault)>>)
    /\ batch_log' = Append(batch_log, <<0, 0>>)
    /\ UNCHANGED <<training, nb_steps, interrupted, feasible, i, optimization_rewards, cand, batch,
                   params, opt_params, info, result>>
    /\ UNCHANGED <<agentVars, testVars, ruleVars>>

\* line 125: self.set_params(**kwargs), first assignment
HpSetParamsA ==
    /\ pc = "hp_set_a"
    /\ params' = [params EXCEPT !.a = KwargsOf(cand).a]
    /\ pc' = "hp_set_b"
    /\ UNCHANGED <<training, nb_steps, interrupted, feasible, i, optimization_rewards, call_log,
                   batch_log, cand, batch, opt_params, info, result>>
    /\ UNCHANGED <<agentVars, testVars, ruleVars>>

\* line 125: self.set_params(**kwargs), last assignment; the call returns
HpSetParamsB ==
    /\ pc = "hp_set_b"
    /\ params' = [params EXCEPT !.b = KwargsOf(cand).b]
    /\ pc' = "hp_test"
    /\ UNCHANGED <<training, nb_steps, interrupted, feasible, i, optimization_rewards, call_log,
                   batch_log, cand, batch, opt_params, info, result>>
    /\ UNCHANGED <<agentVars, testVars, ruleVars>>

\* line 125: set_params raises (a key it reads is missing)
HpSetParamsRaises ==
    /\ pc = "hp_set_a"
    /\ Raise("KeyError")
    /\ UNCHANGED <<training, nb_steps, interrupted, feasible, i, optimization_rewards, call_log,
                   batch_log, cand, batch, params, opt_params, info>>
    /\ UNCHANGED <<agentVars, testVars, ruleVars>>

\* lines 129-139: self.test runs one more episode of the batch
Episode(r) ==
    /\ pc = "hp_test"
    /\ batch[2] < BatchSize
    /\ batch' = <<batch[1] + r, batch[2] + 1>>
    /\ UNCHANGED <<training, pc, nb_steps, interrupted, feasible, i, optimization_rewards, call_log,
                   batch_log, cand, params, opt_params, info, result>>
    /\ UNCHANGED <<agentVars, testVars, ruleVars>>

\* lines 129-139: self.test raises
TestRaises ==
    /\ pc = "hp_test"
    /\ batch[2] < BatchSize
    /\ Raise("Exception")
    /\ UNCHANGED <<training, nb_steps, interrupted, feasible, i, optimization_rewards, call_log,
                   batch_log, cand, batch, params, opt_params, info>>
    /\ UNCHANGED <<agentVars, testVars, ruleVars>>

\* lines 129-159: self.test returns r, rstd; the reward is buffered, i is
\* incremented and find_hp returns; the optimizer logs the objective
FindHpReturn ==
    /\ pc = "hp_test"
    /\ batch[2] = BatchSize
    /\ LET r == Mean(batch[1], batch[2])
           rewards == Append(optimization_rewards, r)
       IN /\ optimization_rewards' = rewards
          /\ call_log' = Append(call_log, <<cand, FindHpValue(r, rewards)>>)
          /\ batch_log' = Append(batch_log, batch)
    /\ i' = i + 1
    /\ pc' = "optimizer"
    /\ UNCHANGED <<training, nb_steps, interrupted, feasible, cand, batch, params, opt_params,
                   info, result>>
    /\ UNCHANGED <<agentVars, testVars, ruleVars>>

\* line 162: raise ot.api.fun.MaximumEvaluationsException(0)
RaiseMaximumEvaluations ==
    /\ pc = "hp_except"
    /\ pc' = "max_evals"
    /\ UNCHANGED <<training, nb_steps, interrupted, feasible, i, optimization_rewards, call_log,
                   batch_log, cand, batch, params, opt_params, info, result>>
    /\ UNCHANGED <<agentVars, testVars, ruleVars>>

\* the optimizer stops early on MaximumEvaluationsException and takes the
\* best sample of its log; line 184 binds opt_params and info
OptimizerStopsEarly ==
    /\ pc = "max_evals"
    /\ call_log # <<>>
    /\ opt_params' = Best(call_log)
    /\ info' = call_log
    /\ pc' = "final_set_a"
    /\ UNCHANGED <<training, nb_steps, interrupted, feasible, i, optimization_rewards, call_log,
                   batch_log, cand, batch, params, result>>
    /\ UNCHANGED <<agentVars, testVars, ruleVars>>

\* ... and has no sample to take when its log is empty: max() of an empty
\* sequence raises ValueError
OptimizerStopsEmpty ==
    /\ pc = "max_evals"
    /\ call_log = <<>>
    /\ Raise("ValueError")
    /\ UNCHANGED <<training, nb_steps, interrupted, feasible, i, optimization_rewards, call_log,
                   batch_log, cand, batch, params, opt_params, info>>
    /\ UNCHANGED <<agentVars, testVars, ruleVars>>

\* line 184: the budget is used up, ot.maximize_structured returns
OptimizerReturns ==
    /\ pc = "optimizer"
    /\ Len(call_log) = nb_steps
    /\ opt_params' = Best(call_log)
    /\ info' = call_log
    /\ pc' = "final_set_a"
    /\ UNCHANGED <<training, nb_steps, interrupted, feasible, i, optimization_rewards, call_log,
                   batch_log, cand, batch, params, result>>
    /\ UNCHANGED <<agentVars, testVars, ruleVars>>

\* line 190: self.set_params(**opt_params), first assignment
FinalSetParamsA ==
    /\ pc = "final_set_a"
    /\ params' = [params EXCEPT !.a = KwargsOf(FinalParams(opt_params, cand)).a]
    /\ pc' = "final_set_b"
    /\ UNCHANGED <<training, nb_steps, interrupted, feasible, i, optimization_rewards, call_log,
                   batch_log, cand, batch, opt_params, info, result>>
    /\ UNCHANGED <<agentVars, testVars, ruleVars>>

\* line 190: self.set_params(**opt_params), last assignment
FinalSetParamsB ==
    /\ pc = "final_set_b"
    /\ params' = [params EXCEPT !.b = KwargsOf(FinalParams(opt_params, cand)).b]
    /\ pc' = "flag_off"
    /\ UNCHANGED <<training, nb_steps, interrupted, feasible, i, optimization_rewards, call_log,
                   batch_log, cand, batch, opt_params, info, result>>
    /\ UNCHANGED <<agentVars, testVars, ruleVars>>

\* line 190: set_params raises
FinalSetParamsRaises ==
    /\ pc = "final_set_a"
    /\ Raise("KeyError")
    /\ UNCHANGED <<training, nb_steps, interrupted, feasible, i, optimization_rewards, call_log,
                   batch_log, cand, batch, params, opt_params, info>>
    /\ UNCHANGED <<agentVars, testVars, ruleVars>>

\* lines 193-196: env.training = False; return opt_params, info
FitReturn ==
    /\ pc = "flag_off"
    /\ training' = FALSE
    /\ Leave([kind |-> "return", opt_params |-> opt_params, info |-> info,
              via |-> "normal"])
    /\ UNCHANGED <<nb_steps, interrupted, feasible, i, optimization_rewards, call_log, batch_log,
                   cand, batch, params, opt_params, info>>
    /\ UNCHANGED <<agentVars, testVars, ruleVars>>

\* lines 198-203: except KeyboardInterrupt: env.training = False;
\* return opt_params, info -- names that are bound only once line 184 is done
ExceptKeyboardInterrupt ==
    /\ pc = "except_ki"
    /\ training' = FALSE
    /\ IF opt_params = Unbound
         THEN Raise("UnboundLocalError")
         ELSE Leave([kind |-> "return", opt_params |-> opt_params, info |-> info,
                     via |-> "interrupt"])
    /\ UNCHANGED <<nb_steps, interrupted, feasible, i, optimization_rewards, call_log, batch_log,
                   cand, batch, params, opt_params, info>>
    /\ UNCHANGED <<agentVars, testVars, ruleVars>>

\* the operator presses Ctrl-C: KeyboardInterrupt is raised wherever control is
KeyboardInterrupt ==
    \/ \E at \in {"benchmark", "optimizer", "violation", "hp_except", "max_evals",
                  "final_set_a", "final_set_b", "flag_off"} : InterruptFit(at)
    \/ \E at \in {"hp_set_a", "hp_set_b", "hp_test"} : InterruptFindHp(at)

(***************************************************************************)
(* The agents.                                                             *)
(***************************************************************************)
Strategies ==
    {"TestAgent", "TestLookAhead", "RandomWalk", "BuyAndHold", "ConstantRebalance",
     "ONS", "OGS", "MW", "ORAMW", "NRS", "AdaHedge", "Flipflop", "HarmonicTrader",
     "PAMR", "OLMAR", "CWMR", "STMR", "KAMAMR", "TCO", "Anticor",
     "TangencyPortfolio", "Markowitz", "ERI", "Pipeline"}

\* an attribute that was never assigned
Undef == <<0, 0>>
Unset == "unset"

\* the variants PAMR.update knows, and two it does not
KnownVariants == {"PAMR0", "PAMR1", "PAMR2"}
Variants == KnownVariants \cup {"PAMR", "PAMR3"}

\* numbers handed to constructors and to set_params
NumVals == {<<1, 2>>, <<2, 1>>}

\* the attributes the constructors assign: __init__ of each class
CtorHp(c, variant, flag, num) ==
    CASE c = "TestLookAhead" -> [mr |-> flag]
      [] c = "RandomWalk" -> [activation |-> IF flag = "True" THEN "softmax" ELSE "raw"]
      [] c = "ConstantRebalance" ->
            [position |-> IF flag = "True"
                            THEN array_normalize([k \in 1..NPairs |-> <<k, 1>>])
                            ELSE <<>>]
      [] c = "ONS" -> [delta |-> R(1, 8), beta |-> One, eta |-> Zero, mr |-> Unset]
      [] c = "OGS" -> [lr |-> One, eta |-> Zero, mr |-> "False", damping |-> R(99, 100)]
      [] c = "MW" -> [lr |-> One]
      [] c = "ORAMW" -> [window |-> <<119, 1>>, k |-> R(1, 10), opt_lr |-> R(1, 2),
                         mpc |-> One]
      [] c = "HarmonicTrader" ->
            [err_allowed |-> R(1, 20), peak_order |-> <<7, 1>>, decay |-> R(99, 100),
             alpha |-> <<One, One>>]
      [] c = "PAMR" -> [eps |-> num, C |-> num, variant |-> variant]
      [] c = "OLMAR" -> [eps |-> R(1, 50), window |-> <<7, 1>>]
      [] c = "CWMR" -> [eps |-> R(-1, 2), theta |-> R(19, 20)]
      [] c = "STMR" -> [eps |-> R(1, 50), eta |-> Zero]
      [] c = "KAMAMR" -> [eps |-> R(1, 50), eta |-> Zero, window |-> <<3, 1>>]
      [] c = "TCO" -> [toff |-> R(1, 10)]
      [] c = "Anticor" -> [window |-> <<30, 1>>]
      [] c = "TangencyPortfolio" -> [target_return |-> Undef]
      [] c = "Markowitz" -> [target_return |-> R(1, 400)]
      [] OTHER -> [none |-> Unset]

(***************************************************************************)
(* set_params.  Each class reads its keys in a fixed order; a key read as  *)
(* kwargs[key] is required, a key read under `if key in kwargs` is not.    *)
(***************************************************************************)
E(key, attr, req, conv) == [key |-> key, attr |-> attr, req |-> req, conv |-> conv]

\* the assignments of set_params of each class, in source order
SetParamsPlan(c) ==
    CASE c = "ONS" -> <<E("delta", "delta", TRUE, "id"), E("beta", "beta", TRUE, "id"),
                        E("eta", "eta", TRUE, "id"), E("mr", "mr", FALSE, "bool")>>
      [] c = "OGS" -> <<E("lr", "lr", FALSE, "id"), E("eta", "eta", FALSE, "id"),
                        E("mr", "mr", FALSE, "bool"), E("damping", "damping", FALSE, "id")>>
      [] c = "MW" -> <<E("lr", "lr", FALSE, "id")>>
      [] c = "ORAMW" -> <<E("window", "window", FALSE, "int"), E("k", "k", FALSE, "id"),
                          E("lr", "opt_lr", FALSE, "id"), E("mpc", "mpc", FALSE, "id")>>
      [] c = "HarmonicTrader" ->
            <<E("err_allowed", "err_allowed", TRUE, "id"),
              E("peak_order", "peak_order", TRUE, "int"),
              E("decay", "decay", TRUE, "id"),
              E("alpha_up", "alpha", TRUE, "pair")>>
      [] c = "PAMR" -> <<E("eps", "eps", TRUE, "id"), E("C", "C", FALSE, "id"),
                         E("variant", "variant", TRUE, "id")>>
      [] c = "OLMAR" -> <<E("eps", "eps", TRUE, "id"), E("window", "window", TRUE, "int")>>
      [] c = "CWMR" -> <<E("eps", "eps", TRUE, "id"), E("confidence", "theta", TRUE, "ppf")>>
      [] c = "STMR" -> <<E("eps", "eps", FALSE, "id"), E("eta", "eta", FALSE, "id")>>
      [] c = "KAMAMR" -> <<E("eps", "eps", TRUE, "id"), E("window", "window", TRUE, "int")>>
      [] c = "TCO" -> <<E("toff", "toff", TRUE, "id")>>
      [] c = "Anticor" -> <<E("window", "window", TRUE, "int")>>
      [] c \in {"TangencyPortfolio", "Markowitz"} ->
            <<E("target_return", "target_return", TRUE, "id")>>
      [] OTHER -> <<>>

\* the classes that define (or inherit from a strategy) a set_params
DefinesSetParams == {"ConstantRebalance", "ONS", "OGS", "MW", "ORAMW", "HarmonicTrader",
                     "PAMR", "OLMAR", "CWMR", "STMR", "KAMAMR", "TCO", "Anticor",
                     "TangencyPortfolio", "Markowitz"}

\* the keys set_params of the class reads
RECURSIVE PlanKeys(_)
PlanKeys(plan) ==
    IF plan = <<>> THEN {}
    ELSE (IF Head(plan).conv = "pair" THEN {"alpha_up", "alpha_down"}
          ELSE {Head(plan).key}) \cup PlanKeys(Tail(plan))

AcceptedKeys(c) == PlanKeys(SetParamsPlan(c))

RECURSIVE RequiredKeys(_)
RequiredKeys(plan) ==
    IF plan = <<>> THEN {}
    ELSE (IF ~Head(plan).req THEN {}
          ELSE IF Head(plan).conv = "pair" THEN {"alpha_up", "alpha_down"}
          ELSE {Head(plan).key}) \cup RequiredKeys(Tail(plan))

\* int(x): truncation toward zero
ToInt(x) == <<(IF x[1] < 0 THEN -((-x[1]) \div x[2]) ELSE x[1] \div x[2]), 1>>

\* bool(x)
ToBool(x) == IF x[1] = 0 THEN "False" ELSE "True"

\* stats.norm.ppf is defined on [0, 1] and nan outside; theta is kept as
\* the confidence it is derived from
Ppf(x) == IF RLeq(Zero, x) /\ RLeq(x, One) THEN x ELSE Undef

Convert(conv, x) ==
    CASE conv = "int" -> ToInt(x)
      [] conv = "bool" -> ToBool(x)
      [] conv = "ppf" -> Ppf(x)
      [] OTHER -> x

\* one assignment of set_params: the attributes after it, or a KeyError
\* that leaves the earlier assignments in place
RECURSIVE RunPlan(_, _, _)
RunPlan(plan, kw, h) ==
    IF plan = <<>> THEN [hp |-> h, exc |-> "none"]
    ELSE LET e == Head(plan) IN
         IF e.conv = "pair"
           THEN IF {"alpha_up", "alpha_down"} \subseteq DOMAIN kw
                  THEN RunPlan(Tail(plan), kw,
                               [h EXCEPT ![e.attr] = <<kw["alpha_up"], kw["alpha_down"]>>])
                  ELSE [hp |-> h, exc |-> "KeyError"]
         ELSE IF e.key \in DOMAIN kw
           THEN RunPlan(Tail(plan), kw, [h EXCEPT ![e.attr] = Convert(e.conv, kw[e.key])])
         ELSE IF e.req
           THEN [hp |-> h, exc |-> "KeyError"]
         ELSE RunPlan(Tail(plan), kw, h)

\* ConstantRebalance.set_params: the values in call order, normalized, the
\* last one dropped and 0.0 appended
ConstantRebalanceSetParams(vals) ==
    Append(SubSeq(array_normalize(vals), 1, Len(vals) - 1), Zero)

\* a set_params that checks the names it is given against the keys it reads
set_params_validating(c, h, kw, vals, factor_ok) ==
    CASE c \notin DefinesSetParams -> [hp |-> h, exc |-> "NotImplementedError"]
      [] c = "ConstantRebalance" ->
            [hp |-> [h EXCEPT !.position = ConstantRebalanceSetParams(vals)],
             exc |-> "none"]
      [] ~(DOMAIN kw \subseteq AcceptedKeys(c)) -> [hp |-> h, exc |-> "TypeError"]
      [] OTHER -> RunPlan(SetParamsPlan(c), kw, h)

\* set_params of the class: the attributes after the call and the exception
\* that ended it ("none": it returned)
set_params(c, h, kw, vals, factor_ok) ==
    CASE c \notin DefinesSetParams -> [hp |-> h, exc |-> "NotImplementedError"]
      [] c = "ConstantRebalance" ->
            [hp |-> [h EXCEPT !.position = ConstantRebalanceSetParams(vals)],
             exc |-> "none"]
      [] c = "TCO" ->
            LET r == RunPlan(SetParamsPlan(c), kw, h) IN
            IF r.exc = "none" /\ ~factor_ok
              THEN [hp |-> r.hp, exc |-> "AttributeError"]
              ELSE r
      [] OTHER -> RunPlan(SetParamsPlan(c), kw, h)

(***************************************************************************)
(* Observations.  An observation holds, for every risky symbol, its last   *)
(* two open prices, and for every symbol the value held in it.             *)
(***************************************************************************)
Prices == 1..2
\* the portfolio is held in equal values in some of the symbols
Holdings == [1..NPairs -> 0..1] \ {[k \in 1..NPairs |-> 0]}
Observations ==
    [prev : {[k \in 1..(NPairs - 1) |-> 1]},
     last : [1..(NPairs - 1) -> Prices],
     held : Holdings]

\* np.random.random(n): the draws of RandomWalk
Samples == [1..NPairs -> {R(1, 4), R(1, 2)}]

\* Agent.get_portfolio_vector: each symbol's share of the portfolio value
get_portfolio_vector(obs) ==
    LET v == [k \in 1..NPairs |-> <<obs.held[k], 1>>]
    IN  [k \in 1..NPairs |-> safe_div(v[k], VSum(v))]

\* price relative x[-1] / x[-2] of every risky symbol, 1.0 appended
\* (TestLookAhead.predict, ONS.predict)
price_relative(obs) ==
    [k \in 1..NPairs |-> IF k = NPairs THEN One
                         ELSE safe_div(<<obs.last[k], 1>>, <<obs.prev[k], 1>>)]

\* price relative x[-2] / x[-1] of every risky symbol, 1.0 appended
\* (PAMR.predict, TestLookAhead.predict with mr)
price_relative_mr(obs) ==
    [k \in 1..NPairs |-> IF k = NPairs THEN One
                         ELSE safe_div(<<obs.prev[k], 1>>, <<obs.last[k], 1>>)]

\* action = np.ones(n_pairs); action[-1] = 0; array_normalize(action)
InitialAllocation ==
    array_normalize([k \in 1..NPairs |-> IF k = NPairs THEN Zero ELSE One])

\* np.argmax: the first index of the largest entry
ArgMax(v) ==
    CHOOSE k \in 1..Len(v) :
        /\ \A j \in 1..Len(v) : RLeq(v[j], v[k])
        /\ \A j \in 1..(k - 1) : RLess(v[j], v[k])

\* the outcome of a call of rebalance
Returns(vec, h) == [tag |-> "value", vec |-> vec, exc |-> "none", hp |-> h]
Raises(exc, h) == [tag |-> "raise", vec |-> <<>>, exc |-> exc, hp |-> h]
NoCall == [tag |-> "none", vec |-> <<>>, exc |-> "none", st |-> 0]

\* TestAgent.predict / rebalance
TestAgent_rebalance(st, h, obs) ==
    IF st = 0 THEN Returns(InitialAllocation, h)
    ELSE Returns(get_portfolio_vector(obs), h)

\* TestLookAhead.rebalance: everything on the symbol with the best factor
TestLookAhead_rebalance(st, h, obs) ==
    LET factor == IF h.mr = "True" THEN price_relative_mr(obs) ELSE price_relative(obs)
    IN  Returns([k \in 1..NPairs |-> IF k = ArgMax(factor) THEN One ELSE Zero], h)

\* RandomWalk.predict / rebalance, without a random process
RandomWalk_rebalance(st, h, rnd) ==
    IF h.activation = "softmax" THEN Returns(array_normalize(rnd), h)
    ELSE Returns(rnd, h)

\* BuyAndHold.predict
BuyAndHold_predict(st, obs) ==
    IF st = 0 THEN array_normalize(Ones(NPairs - 1))
    ELSE SubSeq(get_portfolio_vector(obs), 1, NPairs - 1)

\* BuyAndHold.rebalance: the prediction resized to n_pairs, its last entry
\* set to the fiat share of the current portfolio
BuyAndHold_rebalance(st, h, obs) ==
    LET position == BuyAndHold_predict(st, obs)
    IN  Returns([k \in 1..NPairs |->
                    IF k = NPairs THEN get_portfolio_vector(obs)[NPairs] ELSE position[k]], h)

\* ConstantRebalance.predict / rebalance: predict fills in the position
\* when none was given
ConstantRebalance_rebalance(st, h, obs) ==
    LET position == IF h.position = <<>>
                      THEN Append(array_normalize(Ones(NPairs - 1)), Zero)
                      ELSE h.position
    IN  Returns(position, [h EXCEPT !.position = position])

\* np.mean
VMean(v) == RDiv(VSum(v), <<Len(v), 1>>)

\* np.linalg.norm(v - mean) ** 2
SqDev(v) ==
    LET m == VMean(v)
        d == [k \in 1..Len(v) |-> RMul(RSub(v[k], m), RSub(v[k], m))]
    IN  VSum(d)

\* a multiplier computed from the signed excess b.x - eps, without the
\* max(0., ...) of line 1238
PAMR_lam_signed(h, b, x) ==
    LET le == RSub(Dot(b, x), h.eps)
        lam == CASE h.variant = "PAMR0" -> safe_div(le, SqDev(x))
                 [] h.variant = "PAMR1" -> RMin(h.C, safe_div(le, SqDev(x)))
                 [] OTHER -> safe_div(le, RAdd(SqDev(x), RDiv(R(1, 2), h.C)))
    IN  RMin(<<100000, 1>>, lam)

\* the multiplier of PAMR.update for a recognised variant (lines 1238-1250)
PAMR_lam(h, b, x) ==
    LET le == RMax(Zero, RSub(Dot(b, x), h.eps))
        lam == CASE h.variant = "PAMR0" -> safe_div(le, SqDev(x))
                 [] h.variant = "PAMR1" -> RMin(h.C, safe_div(le, SqDev(x)))
                 [] OTHER -> safe_div(le, RAdd(SqDev(x), RDiv(R(1, 2), h.C)))
    IN  RMin(<<100000, 1>>, lam)

\* the variants PAMR.update accepts before it raises TypeError
PAMR_accepts(variant) == variant \in KnownVariants

\* PAMR.update
PAMR_update(h, b, x) ==
    IF ~PAMR_accepts(h.variant) THEN Raises("TypeError", h)
    ELSE LET lam == PAMR_lam(h, b, x)
             m == VMean(x)
             nb == [k \in 1..Len(b) |-> RAdd(b[k], RMul(lam, RSub(x[k], m)))]
         IN  Returns(simplex_proj(nb), h)

\* the attributes a PAMR agent can hold
PAMR_hps == [eps : NumVals, C : NumVals, variant : Variants]

\* PAMR.rebalance with self.step > 0, lines 1214-1216, tabulated over the
\* attributes and the observations (@@ <<>> makes the table explicit, so
\* that each entry is computed once)
PAMR_step ==
    [h \in PAMR_hps |->
        [obs \in Observations |->
            PAMR_update(h, get_portfolio_vector(obs), price_relative_mr(obs))]
        @@ <<>>] @@ <<>>

\* PAMR.rebalance
PAMR_rebalance(st, h, obs) ==
    IF st # 0 THEN PAMR_step[h][obs]
    ELSE Returns(InitialAllocation, h)

\* x / y on numpy floats: a zero denominator gives inf (<<1, 0>>,
\* <<-1, 0>>) or nan (<<0, 0>>) and a warning, never an exception
FloatDiv(x, y) ==
    IF y[1] = 0 THEN <<(IF x[1] > 0 THEN 1 ELSE IF x[1] < 0 THEN -1 ELSE 0), 0>>
    ELSE RDiv(x, y)

\* neither inf nor nan
IsFinite(x) == x[2] # 0

\* np.log(n) for a small whole n, to three decimals
Ln(n) ==
    CASE n = 1 -> Zero
      [] n = 2 -> R(693, 1000)
      [] n = 3 -> R(1099, 1000)
      [] n = 4 -> R(1386, 1000)
      [] OTHER -> R(1609, 1000)

\* AdaHedge.update, lines 934-938: the accumulator self.delta and the
\* learning rate self.opt.lr after the step.  gap is the mixability gap
\* h - m of line 934: 0 when all experts have the same loss (no price
\* moved), positive otherwise.
AdaHedge_update(h, gap) ==
    LET delta == RAdd(RMul(h.eta, h.delta), gap)
    IN  [delta |-> delta, lr |-> FloatDiv(Ln(NPairs), delta)]

\* a Flipflop.update that flips as soon as the accumulator reaches the
\* scaled other one
Flipflop_update_flip_on_equal(h, gap) ==
    LET r == h.regime
        delta == [h.delta EXCEPT ![r + 1] = RAdd(h.delta[r + 1], gap)]
        regime == IF RLeq(RMul(h.scale[r + 1], delta[2 - r]), delta[r + 1])
                    THEN 1 - r ELSE r
    IN  [h EXCEPT !.delta = delta, !.regime = regime,
                  !.lr = IF regime = 0 THEN R(1000, 1)
                         ELSE FloatDiv(Ln(NPairs), delta[2])]

\* Flipflop.update, lines 1010-1019: the accumulators self.delta, the
\* regime and the learning rate self.opt.lr after the step.  gap is the
\* mixability gap h - m of line 1008; delta[1], delta[2] stand for
\* self.delta[0], self.delta[1].
Flipflop_update(h, gap) ==
    LET r == h.regime
        delta == [h.delta EXCEPT ![r + 1] = RAdd(h.delta[r + 1], gap)]
        regime == IF RLess(RMul(h.scale[r + 1], delta[2 - r]), delta[r + 1])
                    THEN 1 - r ELSE r
    IN  [h EXCEPT !.delta = delta, !.regime = regime,
                  !.lr = IF regime = 0 THEN R(1000, 1)
                         ELSE FloatDiv(Ln(NPairs), delta[2])]

\* scipy.signal.argrelextrema(d, comparator, order=k)[0] with the default
\* mode 'clip': the indices whose value compares strictly with each of the
\* k values on either side, indices beyond the ends taken as the ends
argrelextrema(d, greater, k) ==
    LET n == Len(d)
        lo(j) == IF j < 1 THEN 1 ELSE j
        hi(j) == IF j > n THEN n ELSE j
        cmp(a, b) == IF greater THEN a > b ELSE a < b
    IN  {m \in 1..n : \A j \in 1..k : cmp(d[m], d[lo(m - j)]) /\ cmp(d[m], d[hi(m + j)])}

\* HarmonicTrader.find_extreme: the prices at the local maxima, the local
\* minima and the last index, in index order; indexing an empty series by
\* its last index raises IndexError
find_extreme(h, d) ==
    LET k == h.peak_order[1]
        idx == argrelextrema(d, TRUE, k) \cup argrelextrema(d, FALSE, k) \cup {Len(d)}
        IsExtreme(m) == m \in idx
    IN  IF d = <<>> THEN [exc |-> "IndexError", val |-> <<>>]
        ELSE LET at == SelectSeq([m \in 1..Len(d) |-> m], IsExtreme)
             IN  [exc |-> "none", val |-> [m \in 1..Len(at) |-> d[at[m]]]]

\* HarmonicTrader.calc_intervals: XA, AB, BC, CD from the last five
\* extremes; extremes.iloc[-5] raises IndexError when there are fewer
calc_intervals(e) ==
    LET n == Len(e) IN
    IF n < 5 THEN [exc |-> "IndexError", val |-> <<>>]
    ELSE [exc |-> "none",
          val |-> <<e[n - 1] - e[n], e[n - 2] - e[n - 1],
                    e[n - 3] - e[n - 2], e[n - 4] - e[n - 3]>>]

\* the ratio bounds c1, c2, c3 of is_gartley, is_butterfly, is_bat, is_crab
PatternRatios ==
    [gartley |-> <<<<R(618, 1000), R(618, 1000)>>, <<R(382, 1000), R(886, 1000)>>,
                   <<R(127, 100), R(1618, 1000)>>>>,
     butterfly |-> <<<<R(786, 1000), R(786, 1000)>>, <<R(382, 1000), R(886, 1000)>>,
                     <<R(1618, 1000), R(2618, 1000)>>>>,
     bat |-> <<<<R(382, 1000), R(1, 2)>>, <<R(382, 1000), R(886, 1000)>>,
               <<R(1618, 1000), R(2618, 1000)>>>>,
     crab |-> <<<<R(382, 1000), R(618, 1000)>>, <<R(382, 1000), R(886, 1000)>>,
                <<R(224, 100), R(3618, 1000)>>>>]

\* lines 1094-1100: range[0] < abs(leg) < range[1], the range being
\* [c[0] - err_allowed, c[1] + err_allowed] * abs(base)
InRange(h, c, leg, base) ==
    /\ RLess(RMul(RSub(c[1], h.err_allowed), <<Abs(base), 1>>), <<Abs(leg), 1>>)
    /\ RLess(<<Abs(leg), 1>>, RMul(RAdd(c[2], h.err_allowed), <<Abs(base), 1>>))

\* the three ratio tests of find_pattern on the legs v = XA, AB, BC, CD
RatiosPass(h, c, v) ==
    /\ InRange(h, c[1], v[2], v[1])
    /\ InRange(h, c[2], v[3], v[2])
    /\ InRange(h, c[3], v[4], v[3])

\* the body of the try block of find_pattern (lines 1094-1111)
find_pattern_try(h, d, c) ==
    LET e == find_extreme(h, d)
        legs == IF e.exc # "none" THEN e ELSE calc_intervals(e.val)
        v == legs.val
    IN  IF legs.exc # "none" THEN [tag |-> "raise", val |-> 0]
        ELSE IF ~RatiosPass(h, c, v) THEN [tag |-> "value", val |-> 0]
        ELSE IF v[1] > 0 /\ v[2] < 0 /\ v[3] > 0 /\ v[4] < 0 THEN [tag |-> "value", val |-> 1]
        ELSE IF v[1] < 0 /\ v[2] > 0 /\ v[3] < 0 /\ v[4] > 0 THEN [tag |-> "value", val |-> -1]
        ELSE [tag |-> "value", val |-> 0]

\* a find_pattern without its handler: the IndexError leaves it
find_pattern_unguarded(h, d, c) ==
    LET r == find_pattern_try(h, d, c)
    IN  r

\* HarmonicTrader.find_pattern: except IndexError: return 0
find_pattern(h, d, c) ==
    LET r == find_pattern_try(h, d, c)
    IN  IF r.tag = "raise" THEN [tag |-> "value", val |-> 0] ELSE r

\* HarmonicTrader.rebalance at step 0: activation(port_vec), simplex_proj
\* by default
HarmonicTrader_step0(h) ==
    Returns(simplex_proj([k \in 1..NPairs |-> IF k = NPairs THEN Zero ELSE One]), h)

\* the strategies whose rebalance returns the equal risky allocation when
\* self.step is 0 and otherwise runs an update rule
UpdateRuleStrategies ==
    {"OGS", "MW", "ORAMW", "NRS", "AdaHedge", "Flipflop", "OLMAR", "CWMR", "STMR",
     "KAMAMR", "TCO", "Anticor", "TangencyPortfolio", "Markowitz", "ERI", "Pipeline"}

\* rebalance of the class.  upd stands for the vector the update rule of a
\* strategy in UpdateRuleStrategies (a solver, a projection) comes back with.
rebalance(c, st, h, obs, rnd, upd) ==
    CASE c = "TestAgent" -> TestAgent_rebalance(st, h, obs)
      [] c = "TestLookAhead" -> TestLookAhead_rebalance(st, h, obs)
      [] c = "RandomWalk" -> RandomWalk_rebalance(st, h, rnd)
      [] c = "BuyAndHold" -> BuyAndHold_rebalance(st, h, obs)
      [] c = "ConstantRebalance" -> ConstantRebalance_rebalance(st, h, obs)
      [] c = "ONS" -> Raises("AttributeError", h)
      [] c = "PAMR" -> PAMR_rebalance(st, h, obs)
      [] c = "HarmonicTrader" -> IF st = 0 THEN HarmonicTrader_step0(h) ELSE Returns(upd, h)
      [] OTHER -> IF st = 0 THEN Returns(InitialAllocation, h) ELSE Returns(upd, h)

\* what a call of rebalance does to self.step
StepAfterRebalance(st) == st

\* the classes whose predict is modelled
PredictStrategies ==
    {"TestAgent", "TestLookAhead", "RandomWalk", "BuyAndHold", "ConstantRebalance",
     "ONS", "PAMR", "CWMR", "Pipeline"}

\* predict of the class: the forecast and the attributes after the call.
\* rebalance of TestAgent, RandomWalk and ConstantRebalance returns what
\* predict returns (lines 233-234, 366-367, 417-419); Pipeline does not
\* override APrioriAgent.predict (lines 52-58).
predict(c, st, h, obs, rnd) ==
    CASE c \in {"TestAgent", "RandomWalk", "ConstantRebalance"} ->
            rebalance(c, st, h, obs, rnd, InitialAllocation)
      [] c = "TestLookAhead" ->
            Returns(IF h.mr = "True" THEN price_relative_mr(obs) ELSE price_relative(obs), h)
      [] c = "BuyAndHold" -> Returns(BuyAndHold_predict(st, obs), h)
      [] c \in {"ONS", "CWMR"} -> Returns(price_relative(obs), h)
      [] c = "PAMR" -> Returns(price_relative_mr(obs), h)
      [] OTHER -> Raises("NotImplementedError", h)

\* Pipeline.rebalance, line 2190: self.factor.step = self.risk.step = self.step
SubStepAfterRebalance(c, st, ss) ==
    IF c = "Pipeline" /\ st # 0 THEN <<st, st>> ELSE ss

(***************************************************************************)
(* One agent: construction, direct calls of rebalance and set_params, and  *)
(* the test loop.                                                          *)
(***************************************************************************)
\* the vectors an update rule can come back with
Updates ==
    {InitialAllocation,
     [k \in 1..NPairs |-> IF k = 1 THEN One ELSE Zero],
     [k \in 1..NPairs |-> IF k = NPairs THEN One ELSE Zero]}

NoSample == [k \in 1..NPairs |-> R(1, 2)]
NoUpdate == InitialAllocation

\* the inputs of a rebalance call that the class and the step make use of
NoObservation ==
    [prev |-> [k \in 1..(NPairs - 1) |-> 1], last |-> [k \in 1..(NPairs - 1) |-> 1],
     held |-> [k \in 1..NPairs |-> 1]]
ObservationInputs(c, st) ==
    CASE c = "TestLookAhead" ->
            {o \in Observations : o.held = NoObservation.held}
      [] c = "BuyAndHold" \/ (c = "TestAgent" /\ st # 0) ->
            {o \in Observations : o.last = NoObservation.last}
      [] c = "PAMR" /\ st # 0 -> Observations
      [] OTHER -> {NoObservation}
RandomInputs(c) == IF c = "RandomWalk" THEN Samples ELSE {NoSample}
UpdateInputs(c, st) ==
    IF st # 0 /\ c \in UpdateRuleStrategies \cup {"HarmonicTrader"}
      THEN Updates ELSE {NoUpdate}

\* the keyword arguments of a set_params call: accepted keys and one that
\* no class accepts
KwargsFor(c) ==
    UNION {{[k \in P |-> IF k = "variant" THEN var ELSE v] :
                v \in NumVals,
                var \in (IF "variant" \in P THEN Variants ELSE {"PAMR1"})} :
           P \in SUBSET (AcceptedKeys(c) \cup {"bogus"})}

ValuesFor(c) ==
    IF c = "ConstantRebalance" THEN [1..NPairs -> NumVals] ELSE {<<>>}

NoSetParams == [exc |-> "none", called |-> FALSE, unknown |-> FALSE, missing |-> FALSE]

\* no predict call was made yet
NoPredict == [called |-> FALSE, tick |-> 0, obs |-> <<>>, val |-> <<>>, exc |-> "none"]

\* the status dictionary of env.step with both flags off, and no exception
NoStatus == [OOD |-> FALSE, Error |-> FALSE, exc |-> "none"]

\* no update rule was called
NoRuleCall == [fn |-> "none", args |-> <<>>, res |-> <<>>]

\* APrioriAgent.__init__ and the __init__ of the class
InitAgent ==
    /\ cls \in Strategies
    /\ \E variant \in Variants, flag \in {"True", "False"}, num \in NumVals :
            hp = CtorHp(cls, variant, flag, num)
    /\ step = 0
    /\ sub_step = <<0, 0>>
    /\ out = NoCall
    /\ sp = NoSetParams
    /\ pred = NoPredict

InitTest ==
    /\ tpc = "idle"
    /\ nb_max_episode_steps = 0
    /\ episode_reward = 1
    /\ env_steps = 0
    /\ test_result = [kind |-> "none", value |-> 0, exc |-> "none"]
    /\ status = NoStatus

\* a caller calls rebalance(obs)
CallRebalance ==
    /\ tpc \in {"idle", "done"}
    /\ \E obs \in ObservationInputs(cls, step), rnd \in RandomInputs(cls),
          upd \in UpdateInputs(cls, step) :
         LET r == rebalance(cls, step, hp, obs, rnd, upd) IN
         /\ out' = [tag |-> r.tag, vec |-> r.vec, exc |-> r.exc, st |-> step]
         /\ hp' = r.hp
    /\ step' = StepAfterRebalance(step)
    /\ sub_step' = SubStepAfterRebalance(cls, step, sub_step)
    /\ UNCHANGED <<cls, sp, pred, testVars>>
    /\ UNCHANGED <<fitVars, ruleVars>>

\* a caller calls set_params(**kw).  sp records whether the call held a key
\* the class does not read (ConstantRebalance reads every key it is given)
\* and whether it lacked a key the class reads as kwargs[key]
CallSetParams ==
    /\ tpc \in {"idle", "done"}
    /\ \E kw \in KwargsFor(cls), vals \in ValuesFor(cls), factor_ok \in BOOLEAN :
         LET r == set_params(cls, hp, kw, vals, factor_ok) IN
         /\ hp' = r.hp
         /\ sp' = [exc |-> r.exc, called |-> TRUE,
                   unknown |-> cls # "ConstantRebalance" /\ "bogus" \in DOMAIN kw,
                   missing |-> ~(RequiredKeys(SetParamsPlan(cls)) \subseteq DOMAIN kw)]
    /\ UNCHANGED <<cls, step, sub_step, out, pred, testVars>>
    /\ UNCHANGED <<fitVars, ruleVars>>

\* a caller calls predict(obs); the observations differ in their prices
CallPredict ==
    /\ tpc \in {"idle", "done"}
    /\ cls \in PredictStrategies
    /\ \E obs \in {o \in Observations : o.held = NoObservation.held},
          rnd \in RandomInputs(cls) :
         LET r == predict(cls, step, hp, obs, rnd) IN
         /\ pred' = [called |-> TRUE, tick |-> 1 - pred.tick, obs |-> obs,
                     val |-> r.vec, exc |-> r.exc]
         /\ hp' = r.hp
    /\ UNCHANGED <<cls, step, sub_step, out, sp, testVars>>
    /\ UNCHANGED <<fitVars, ruleVars>>

\* TestAgent.test, lines 241-256: resets; self.step = 0; episode_reward = 1
TestBegin(n) ==
    /\ tpc \in {"idle", "done"}
    /\ nb_max_episode_steps' = n
    /\ step' = 0
    /\ episode_reward' = 1
    /\ env_steps' = 0
    /\ test_result' = [kind |-> "none", value |-> 0, exc |-> "none"]
    /\ tpc' = "rebalance"
    /\ status' = NoStatus
    /\ UNCHANGED <<cls, hp, sub_step, out, sp, pred>>
    /\ UNCHANGED <<fitVars, ruleVars>>

\* a handler that prints the exception and lets the loop go on
ExceptionSwallowed(exc, res) == [tpc |-> "rebalance", result |-> res]

\* lines 290-293: except Exception as e: print(...); raise e
ExceptException(exc, res) ==
    [tpc |-> "done", result |-> [kind |-> "raise", value |-> 0, exc |-> exc]]

\* line 260: action = self.rebalance(env.get_observation(True)); an
\* exception is printed and raised again (lines 290-293)
TestRebalance ==
    /\ tpc = "rebalance"
    /\ \E obs \in ObservationInputs(cls, step), rnd \in RandomInputs(cls),
          upd \in UpdateInputs(cls, step) :
         LET r == rebalance(cls, step, hp, obs, rnd, upd) IN
         /\ out' = [tag |-> r.tag, vec |-> r.vec, exc |-> r.exc, st |-> step]
         /\ hp' = r.hp
         /\ status' = [NoStatus EXCEPT !.exc = r.exc]
         /\ IF r.tag = "raise"
              THEN /\ tpc' = ExceptException(r.exc, test_result).tpc
                   /\ test_result' = ExceptException(r.exc, test_result).result
              ELSE /\ tpc' = "env_step"
                   /\ UNCHANGED test_result
    /\ step' = StepAfterRebalance(step)
    /\ sub_step' = SubStepAfterRebalance(cls, step, sub_step)
    /\ UNCHANGED <<cls, sp, pred, nb_max_episode_steps, episode_reward, env_steps>>
    /\ UNCHANGED <<fitVars, ruleVars>>

\* a loop that forgets to count the step
StepNotCounted(st) == st

\* what one pass of the loop does to self.step: line 264, self.step += 1
StepAfterEnvStep(st) == st + 1

\* a loop that does not look at status['Error']
LoopExitIgnoringError(ood, err, st, n) ==
    IF ood \/ st = n THEN "return" ELSE "continue"

\* a loop that tests the step limit one pass late
LoopExitOneLate(ood, err, st, n) ==
    IF ood \/ st = n + 1 THEN "return"
    ELSE IF err THEN "break"
    ELSE "continue"

\* lines 281-288: return episode_reward when status['OOD'] is set or the
\* step limit is reached, break when status['Error'] is set, else go on
LoopExit(ood, err, st, n) ==
    IF ood \/ st = n THEN "return"
    ELSE IF err THEN "break"
    ELSE "continue"

\* lines 261-288: env.step(action); the reward is multiplied in; the step
\* is counted; the loop returns, breaks or goes on
TestEnvStep(reward, ood, err) ==
    /\ tpc = "env_step"
    /\ episode_reward' = episode_reward * reward
    /\ step' = StepAfterEnvStep(step)
    /\ env_steps' = env_steps + 1
    /\ status' = [OOD |-> ood, Error |-> err, exc |-> "none"]
    /\ LET exit == LoopExit(ood, err, step', nb_max_episode_steps) IN
         CASE exit = "return" ->
                /\ tpc' = "done"
                /\ test_result' = [kind |-> "return", value |-> episode_reward',
                                   exc |-> "none"]
           [] exit = "break" ->
                /\ tpc' = "done"
                /\ test_result' = [kind |-> "return_none", value |-> 0, exc |-> "none"]
           [] OTHER ->
                /\ tpc' = "rebalance"
                /\ UNCHANGED test_result
    /\ UNCHANGED <<cls, hp, sub_step, out, sp, pred, nb_max_episode_steps>>
    /\ UNCHANGED <<fitVars, ruleVars>>

\* line 261: env.step raises; lines 290-293 print and raise again
TestEnvStepRaises ==
    /\ tpc = "env_step"
    /\ tpc' = ExceptException("Exception", test_result).tpc
    /\ test_result' = ExceptException("Exception", test_result).result
    /\ status' = [NoStatus EXCEPT !.exc = "Exception"]
    /\ UNCHANGED <<agentVars, nb_max_episode_steps, episode_reward, env_steps>>
    /\ UNCHANGED <<fitVars, ruleVars>>

\* lines 295-298: a KeyboardInterrupt ends the loop; test prints and
\* returns None
TestInterrupt ==
    /\ tpc \in {"rebalance", "env_step"}
    /\ tpc' = "done"
    /\ test_result' = [kind |-> "return_none", value |-> 0, exc |-> "none"]
    /\ UNCHANGED <<agentVars, nb_max_episode_steps, episode_reward, env_steps, status>>
    /\ UNCHANGED <<fitVars, ruleVars>>

\* the agent of a fit run: a PAMR agent as constructed by default
FitAgent ==
    /\ cls = "PAMR"
    /\ hp = CtorHp("PAMR", "PAMR1", "False", One)
    /\ step = 0
    /\ sub_step = <<0, 0>>
    /\ out = NoCall
    /\ sp = NoSetParams
    /\ pred = NoPredict

NextFit ==
    \/ FitEnter
    \/ OptimizeBenchmark
    \/ OptimizeBenchmarkRaises
    \/ \E c \in Candidates : Sample(c)
    \/ ViolationEscapes
    \/ ViolationBoxDefaulted
    \/ HpSetParamsA
    \/ HpSetParamsB
    \/ HpSetParamsRaises
    \/ \E r \in Rewards : Episode(r)
    \/ TestRaises
    \/ FindHpReturn
    \/ RaiseMaximumEvaluations
    \/ OptimizerStopsEarly
    \/ OptimizerStopsEmpty
    \/ OptimizerReturns
    \/ FinalSetParamsA
    \/ FinalSetParamsB
    \/ FinalSetParamsRaises
    \/ FitReturn
    \/ ExceptKeyboardInterrupt
    \/ KeyboardInterrupt

\* a call of fit on a freshly constructed agent
FitInit == InitFit /\ FitAgent /\ InitTest /\ rule_call = NoRuleCall

SpecFit == FitInit /\ [][NextFit]_vars


\* no fit is running
NoFit ==
    /\ training = FALSE
    /\ pc = "idle"
    /\ nb_steps = 1
    /\ feasible = Candidates
    /\ i = 0
    /\ optimization_rewards = <<>>
    /\ call_log = <<>>
    /\ batch_log = <<>>
    /\ cand = 0
    /\ batch = <<0, 0>>
    /\ params = NoParams
    /\ opt_params = Unbound
    /\ info = <<>>
    /\ result = [kind |-> "none"]
    /\ interrupted = FALSE

\* construction, then direct calls of set_params and rebalance
NextParams ==
    \/ CallRebalance
    \/ CallSetParams

\* a freshly constructed agent of any class
AgentInit == InitAgent /\ InitTest /\ NoFit /\ rule_call = NoRuleCall

SpecParams == AgentInit /\ [][NextParams]_vars

\* construction, then direct calls of rebalance and runs of the test loop
NextTest ==
    \/ CallRebalance
    \/ \E n \in 1..MaxEpisodeSteps : TestBegin(n)
    \/ TestRebalance
    \/ \E reward \in Rewards, ood \in BOOLEAN, err \in BOOLEAN :
            TestEnvStep(reward, ood, err)
    \/ TestEnvStepRaises
    \/ TestInterrupt

SpecTest == AgentInit /\ [][NextTest]_vars

\* construction, then direct calls of rebalance and predict
NextPredict ==
    \/ CallRebalance
    \/ CallPredict

SpecPredict == AgentInit /\ [][NextPredict]_vars

\* APrioriAgent.rebalance (lines 60-61): return NotImplementedError()
APrioriAgent_rebalance(h) == Returns("NotImplementedError()", h)

\* a call of one of the three contract methods on an agent whose class
\* overrides none of them (lines 52-65)
APrioriAgent_call(fn, h) ==
    CASE fn = "predict" -> predict("APrioriAgent", 0, h, NoObservation, NoSample)
      [] fn = "rebalance" -> APrioriAgent_rebalance(h)
      [] OTHER -> LET r == set_params("APrioriAgent", h, <<>>, <<>>, TRUE)
                  IN  IF r.exc = "none" THEN Returns("None", r.hp) ELSE Raises(r.exc, r.hp)

\* ORAMW.__init__ (lines 654-671) called with window=w
ORAMW_init(w) ==
    [CtorHp("ORAMW", "PAMR1", "False", One) EXCEPT !.window = <<w - 1, 1>>]

\* OLMAR.predict (lines 1286-1294): the mean of the last window opens over
\* the last open, 1.0 appended; an observation of the model has two rows
OLMAR_predict(obs) ==
    [k \in 1..NPairs |->
        IF k = NPairs THEN One
        ELSE safe_div(R(obs.prev[k] + obs.last[k], 2), <<obs.last[k], 1>>)]

\* OLMAR.update (lines 1313-1332): the multiplier and the portfolio returned
OLMAR_update(h, b, x) ==
    LET xt == Dot(b, x)
        x_mean == VMean(x)
        lam == RMin(<<100000, 1>>, RMax(Zero, safe_div(RSub(xt, h.eps), SqDev(x))))
        nb == [k \in 1..Len(b) |-> RAdd(b[k], RMul(lam, RSub(x[k], x_mean)))]
    IN  [lam |-> lam, vec |-> simplex_proj(nb)]

\* np.clip(x, lo, hi) on one number
clip(x, lo, hi) == RMax(lo, RMin(hi, x))

\* an OGS agent as OGS.__init__ leaves it (lines 519-532), constructed with
\* lr=0.1 and damping=1.0; gti and crp do not exist yet
OGS_new ==
    [init |-> FALSE, gti |-> <<>>, crp |-> <<>>, lr |-> R(1, 10), eta |-> Zero,
     damping |-> One, clip |-> <<1000000, 1>>]

\* OGS.update (lines 560-572): the agent and the portfolio returned
OGS_update(a, b, x) ==
    LET n == Len(x)
        xt == Dot(b, x)
        grad == [k \in 1..n |->
                   RSub(clip(safe_div(x[k], xt), RSub(Zero, a.clip), a.clip), One)]
        gti == [k \in 1..n |->
                  clip(RAdd(RMul(a.gti[k], a.damping), RMul(grad[k], grad[k])),
                       Zero, <<100000000, 1>>)]
        nb == [k \in 1..n |-> RAdd(b[k], RMul(a.lr, safe_div(grad[k], gti[k])))]
        pp == simplex_proj(nb)
    IN  [a |-> [a EXCEPT !.gti = gti],
         vec |-> [k \in 1..n |->
                    RAdd(RMul(pp[k], RSub(One, a.eta)), RMul(R(1, n), a.eta))]]

\* OGS.rebalance (lines 541-558) at self.step = st
OGS_rebalance(a, st, obs) ==
    LET a1 == IF ~a.init
                THEN [a EXCEPT !.crp = InitialAllocation,
                               !.gti = [k \in 1..NPairs |-> One], !.init = TRUE]
                ELSE a
    IN  IF st # 0 THEN OGS_update(a1, get_portfolio_vector(obs), price_relative(obs))
        ELSE [a |-> a1, vec |-> a1.crp]

\* np.allclose(a, b, rtol, atol): |a - b| <= atol + rtol * |b| in every entry
allclose(a, b, rtol, atol) ==
    \A k \in 1..Len(a) :
        LET d == RSub(a[k], b[k])
        IN  RLeq(RMax(d, RSub(Zero, d)),
                 RAdd(atol, RMul(rtol, RMax(b[k], RSub(Zero, b[k])))))

\* NRS.rebalance at step 0 (lines 884-892): both experts and the portfolio
\* are the equal risky allocation, the scores are 0; beta from __init__
NRS_step0 ==
    [w |-> <<InitialAllocation, InitialAllocation>>, score |-> <<Zero, Zero>>,
     b |-> InitialAllocation, beta |-> R(1, 2)]

\* what one NRS.update is handed from outside the class: the last row of
\* the log returns, the two vectors scipy's minimize comes back with (lines
\* 838-856) and the vector of self.pe.optimize (line 861)
NRS_inputs ==
    [last_x : {[k \in 1..NPairs |-> Zero], [k \in 1..NPairs |-> IF k = 1 THEN One ELSE Zero]},
     sol : Updates \X Updates,
     pe : Updates]

\* NRS.update (lines 813-873): the scores, the expert the closeness test
\* reads, the action, the experts after minimize, and the portfolio
\* returned.  self.w is one array (np.vstack, line 889): lines 838 and
\* 847 overwrite its rows, and lines 858-861 read the row again.
NRS_update(h, in) ==
    LET score == [m \in 1..2 |->
                    RAdd(RMul(h.score[m], h.beta),
                         RMul(RSub(One, h.beta), Dot(in.last_x, h.w[m])))]
        best == IF RLess(score[1], score[2]) THEN 2 ELSE 1
        best_w == h.w[best]
        action == IF allclose(h.b, best_w, R(1, 100), R(1, 100)) THEN "follow" ELSE "pursuit"
        w == in.sol
        b == IF action = "follow" THEN simplex_proj(w[best]) ELSE simplex_proj(in.pe)
    IN  [h |-> [h EXCEPT !.w = w, !.score = score, !.b = b],
         action |-> action, best_w |-> best_w, vec |-> b]

(***************************************************************************)
(* One call of an update rule on inputs drawn from bounded sets.           *)
(***************************************************************************)
Pending == [tag |-> "pending"]

\* the calls of an update rule an agent of the class can receive.  PAMR:
\* the previous portfolio and the prediction that PAMR.rebalance hands to
\* update (lines 1214-1215)
RuleCalls(c) ==
    CASE c = "PAMR" ->
            [fn : {"PAMR.update"},
             args : [b : {get_portfolio_vector(o) : o \in Observations},
                     x : {price_relative_mr(o) : o \in Observations}],
             res : {Pending}]
      [] c = "AdaHedge" ->
            [fn : {"AdaHedge.update"}, args : [gap : {Zero, R(1, 2)}], res : {Pending}]
      [] c = "Flipflop" ->
            {[fn |-> "Flipflop.update", args |-> [gap |-> Zero, n |-> 0], res |-> Pending]}
      [] c = "APrioriAgent" ->
            [fn : {"predict", "rebalance", "set_params"}, args : {<<>>}, res : {Pending}]
      [] c = "ORAMW" ->
            [fn : {"ORAMW.window"}, args : [window : -1..3], res : {Pending}]
      [] c = "OLMAR" ->
            [fn : {"OLMAR.update"},
             args : [b : {get_portfolio_vector(o) : o \in Observations},
                     x : {OLMAR_predict(o) : o \in Observations}],
             res : {Pending}]
      [] c = "OGS" ->
            {[fn |-> "OGS.rebalance", args |-> [obs |-> NoObservation, n |-> 0],
              res |-> Pending]}
      [] c = "NRS" ->
            [fn : {"NRS.update"}, args : NRS_inputs, res : {Pending}]
      [] c = "HarmonicTrader" ->
            [fn : {"find_pattern"},
             args : [obs : UNION {[1..n -> 1..3] : n \in 0..MaxSeriesLen},
                     c : DOMAIN PatternRatios],
             res : {Pending}]
      [] OTHER -> {}

\* an agent, with the attributes its constructor or set_params gave it,
\* and a call of one of its update rules that is about to be made
RulesInit ==
    /\ cls \in {"APrioriAgent", "ORAMW", "PAMR", "OLMAR", "OGS", "AdaHedge", "Flipflop", "NRS", "HarmonicTrader"}
    /\ hp \in (CASE cls = "PAMR" -> PAMR_hps
                 [] cls = "AdaHedge" ->
                        [eta : {Zero, R(999, 1000)}, delta : {One, R(1, 2)}, lr : {One}]
                 [] cls = "Flipflop" ->
                        {[scale |-> <<RDiv(phi, alpha), alpha>>,
                          delta |-> <<R(1, 1000), R(1, 1000)>>, regime |-> 0, lr |-> One] :
                         phi \in {R(11, 10)}, alpha \in {R(1, 10), R(1, 2)}}
                 [] cls = "APrioriAgent" -> {CtorHp(cls, "PAMR1", "False", One)}
                 [] cls = "ORAMW" -> {CtorHp(cls, "PAMR1", "False", One)}
                 [] cls = "OLMAR" ->
                        {[CtorHp(cls, "PAMR1", "False", One) EXCEPT !.eps = e] :
                         e \in {R(1, 50), One, R(3, 2)}}
                 [] cls = "OGS" -> {[used |-> OGS_new, fresh |-> OGS_new, episode |-> 1]}
                 [] cls = "NRS" ->
                        {NRS_step0} \cup {NRS_update(NRS_step0, in).h : in \in NRS_inputs}
                 [] cls = "HarmonicTrader" ->
                        {[CtorHp(cls, "PAMR1", "False", One)
                            EXCEPT !.err_allowed = e, !.peak_order = <<1, 1>>] :
                         e \in {R(1, 20), R(1, 2)}}
                 [] OTHER -> {})
    /\ step = IF cls = "OGS" THEN 0 ELSE 1
    /\ sub_step = <<0, 0>>
    /\ out = NoCall
    /\ sp = NoSetParams
    /\ pred = NoPredict
    /\ rule_call \in RuleCalls(cls)
    /\ InitTest
    /\ NoFit

\* PAMR.update(b, x) runs
CallPAMRUpdate ==
    /\ rule_call.fn = "PAMR.update"
    /\ rule_call.res = Pending
    /\ LET r == PAMR_update(hp, rule_call.args.b, rule_call.args.x) IN
         rule_call' = [rule_call EXCEPT !.res = [tag |-> r.tag, vec |-> r.vec, exc |-> r.exc]]
    /\ UNCHANGED <<fitVars, agentVars, testVars>>

\* AdaHedge.update(b, x) runs
CallAdaHedgeUpdate ==
    /\ rule_call.fn = "AdaHedge.update"
    /\ rule_call.res = Pending
    /\ LET r == AdaHedge_update(hp, rule_call.args.gap) IN
         /\ rule_call' = [rule_call EXCEPT !.res = [tag |-> "value", delta |-> r.delta,
                                                     lr |-> r.lr]]
         /\ hp' = [hp EXCEPT !.delta = r.delta, !.lr = r.lr]
    /\ UNCHANGED <<cls, step, sub_step, out, sp, pred>>
    /\ UNCHANGED <<fitVars, testVars>>

\* Flipflop.update(b, x) runs, once more on the same agent
CallFlipflopUpdate ==
    /\ rule_call.fn = "Flipflop.update"
    /\ rule_call.args.n < MaxUpdates
    /\ \E gap \in {Zero, R(1, 1000), R(1, 100)} :
         /\ hp' = Flipflop_update(hp, gap)
         /\ rule_call' = [rule_call EXCEPT !.args = [gap |-> gap, n |-> rule_call.args.n + 1],
                                           !.res = [tag |-> "value"]]
    /\ UNCHANGED <<cls, step, sub_step, out, sp, pred>>
    /\ UNCHANGED <<fitVars, testVars>>

\* predict, rebalance or set_params of APrioriAgent runs
CallContractMethod ==
    /\ rule_call.fn \in {"predict", "rebalance", "set_params"}
    /\ rule_call.res = Pending
    /\ LET r == APrioriAgent_call(rule_call.fn, hp) IN
         rule_call' = [rule_call EXCEPT !.res = [tag |-> r.tag, vec |-> r.vec, exc |-> r.exc]]
    /\ UNCHANGED <<fitVars, agentVars, testVars>>

\* the lookback is configured both ways: ORAMW(window=W) is constructed,
\* and set_params(window=W) runs on the agent
CallORAMWWindow ==
    /\ rule_call.fn = "ORAMW.window"
    /\ rule_call.res = Pending
    /\ LET W == rule_call.args.window
           r == set_params(cls, hp, [key \in {"window"} |-> <<W, 1>>], <<>>, TRUE)
       IN  /\ hp' = r.hp
           /\ rule_call' = [rule_call EXCEPT
                              !.res = [tag |-> "value", ctor |-> ORAMW_init(W).window,
                                       set |-> r.hp.window]]
    /\ UNCHANGED <<cls, step, sub_step, out, sp, pred>>
    /\ UNCHANGED <<fitVars, testVars>>

\* OLMAR.update(b, x) runs
CallOLMARUpdate ==
    /\ rule_call.fn = "OLMAR.update"
    /\ rule_call.res = Pending
    /\ LET r == OLMAR_update(hp, rule_call.args.b, rule_call.args.x) IN
         rule_call' = [rule_call EXCEPT !.res = [tag |-> "value", lam |-> r.lam,
                                                 vec |-> r.vec]]
    /\ UNCHANGED <<fitVars, agentVars, testVars>>

\* rebalance(obs) runs on an OGS agent in the test loop, and self.step is
\* counted (lines 260-264); in the second episode the same call is made on
\* a second agent, constructed when that episode starts
CallOGSRebalance ==
    /\ rule_call.fn = "OGS.rebalance"
    /\ rule_call.args.n < MaxUpdates
    /\ \E obs \in {o \in Observations :
                        /\ o.held = NoObservation.held
                        /\ \A k \in 2..(NPairs - 1) : o.last[k] = 1} :
         LET u == OGS_rebalance(hp.used, step, obs)
             f == OGS_rebalance(hp.fresh, step, obs)
         IN  /\ hp' = [hp EXCEPT !.used = u.a,
                                 !.fresh = IF hp.episode = 2 THEN f.a ELSE @]
             /\ rule_call' = [rule_call EXCEPT
                                !.args = [obs |-> obs, n |-> rule_call.args.n + 1],
                                !.res = [tag |-> "value", used |-> u.vec,
                                         fresh |-> IF hp.episode = 2 THEN f.vec ELSE <<>>]]
    /\ step' = step + 1
    /\ UNCHANGED <<cls, sub_step, out, sp, pred>>
    /\ UNCHANGED <<fitVars, testVars>>

\* TestAgent.test starts a second episode on the used OGS agent: self.step
\* = 0 (line 255)
OGSNewEpisode ==
    /\ rule_call.fn = "OGS.rebalance"
    /\ hp.episode = 1
    /\ step >= 1
    /\ hp' = [hp EXCEPT !.episode = 2]
    /\ step' = 0
    /\ rule_call' = [rule_call EXCEPT !.res = Pending]
    /\ UNCHANGED <<cls, sub_step, out, sp, pred>>
    /\ UNCHANGED <<fitVars, testVars>>

\* NRS.update(self.b, x) runs
CallNRSUpdate ==
    /\ rule_call.fn = "NRS.update"
    /\ rule_call.res = Pending
    /\ LET r == NRS_update(hp, rule_call.args) IN
         /\ rule_call' = [rule_call EXCEPT !.res = [tag |-> "value", action |-> r.action,
                                                     best_w |-> r.best_w, vec |-> r.vec]]
         /\ hp' = r.h
    /\ UNCHANGED <<cls, step, sub_step, out, sp, pred>>
    /\ UNCHANGED <<fitVars, testVars>>

\* HarmonicTrader.find_pattern(obs, c1, c2, c3) runs
CallFindPattern ==
    /\ rule_call.fn = "find_pattern"
    /\ rule_call.res = Pending
    /\ rule_call' = [rule_call EXCEPT
                        !.res = find_pattern(hp, rule_call.args.obs,
                                             PatternRatios[rule_call.args.c])]
    /\ UNCHANGED <<fitVars, agentVars, testVars>>

NextRules ==
    \/ CallPAMRUpdate
    \/ CallAdaHedgeUpdate
    \/ CallContractMethod
    \/ CallORAMWWindow
    \/ CallOLMARUpdate
    \/ CallFlipflopUpdate
    \/ CallOGSRebalance
    \/ OGSNewEpisode
    \/ CallNRSUpdate
    \/ CallFindPattern

SpecRules == RulesInit /\ [][NextRules]_vars

(***************************************************************************)
(* Properties of APrioriAgent.fit, checked under SpecFit.                  *)
(***************************************************************************)
\* two fractions denote the same number
SameNumber(x, y) == x[1] * y[2] = y[1] * x[2]

\* control has left fit
Left == pc = "exit"

\* the samples of the log that the constraints reject
Infeasible == {k \in 1..Len(call_log) : call_log[k][1] \notin feasible}

\* C4: if the operator interrupts fit after env.training was set to True,
\* env.training is False by the time control leaves fit.
C4_TrainingOffAfterInterrupt ==
    (Left /\ interrupted) => training = FALSE

\* C25: env.training is False whenever control leaves fit, on every exit
\* path: normal return, interruption, and an exception raised by
\* set_params, the batch test, env.optimize_benchmark or the optimizer.
C25_TrainingOffOnEveryExit ==
    Left => training = FALSE

\* C5: if the operator interrupts fit, fit returns normally with the best
\* parameter set among the completed evaluations, and the strategy is left
\* configured with exactly that set.
C5_InterruptReturnsBest ==
    (Left /\ interrupted) =>
        /\ result.kind = "return"
        /\ call_log # <<>>
        /\ result.opt_params = Best(call_log)
        /\ params = KwargsOf(Best(call_log))

\* C6: a sample that violates a constraint is reported to the optimizer
\* with the objective -100 and no exception is raised; set_params and the
\* batch test are not run for it.
C6_ViolationDefaulted ==
    /\ pc # "violation"
    /\ ~(Left /\ result.kind = "raise" /\ result.exc = "ConstraintViolation")
    /\ \A k \in Infeasible :
          /\ call_log[k][2] = Whole(ViolationDefault)
          /\ batch_log[k] = <<0, 0>>
    /\ (pc \in {"hp_set_a", "hp_set_b", "hp_test"} => cand \in feasible)

\* C7: in every evaluation set_params with the sampled candidate completes
\* before the first episode of the batch, the parameters do not change while
\* the batch runs, and the value reported for the candidate is the mean
\* reward of that same batch.
C7_SetParamsBeforeBatch ==
    /\ (pc = "hp_test" => params = KwargsOf(cand))
    /\ (pc \in {"hp_set_a", "hp_set_b"} => batch = <<0, 0>>)
    /\ \A k \in 1..Len(call_log) :
          batch_log[k] # <<0, 0>> =>
              /\ batch_log[k][2] = BatchSize
              /\ SameNumber(call_log[k][2], Mean(batch_log[k][1], batch_log[k][2]))

\* two evaluations have completed with different batch means
C7_Witness ==
    /\ pc = "optimizer"
    /\ Len(call_log) = 2
    /\ batch_log[1][2] = BatchSize
    /\ batch_log[2][2] = BatchSize
    /\ batch_log[1][1] # batch_log[2][1]

\* C8: when the optimizer finishes without interruption, fit ends with the
\* strategy configured with the optimizer's best parameter set, with
\* env.training False, and returns (best parameter set, optimizer trace).
C8_FinishConfiguresBest ==
    (Left /\ ~interrupted /\ result.kind = "return") =>
        /\ params = KwargsOf(Best(call_log))
        /\ training = FALSE
        /\ result.opt_params = Best(call_log)
        /\ result.info = call_log

\* fit has returned without interruption and the best set is not the last
\* sampled one
C8_Witness ==
    /\ Left
    /\ ~interrupted
    /\ result.kind = "return"
    /\ Len(call_log) = 2
    /\ Best(call_log) # cand

\* a set_params call has made some of its assignments, or some of the
\* episodes of a batch are done
MidUpdate ==
    \/ pc \in {"hp_set_b", "final_set_b"}
    \/ (pc = "hp_test" /\ batch[2] \in 1..(BatchSize - 1))

\* C14: an operator cancellation during fit takes effect only between
\* evaluation batches, never part-way through an update or a batch, so
\* that when fit stops the strategy is not left with a partially applied
\* update.
C14_CancelOnlyBetweenBatches ==
    [][/\ ((interrupted' /\ ~interrupted) => ~MidUpdate)
       /\ ((pc' = "exit" /\ interrupted') => params'.a = params'.b)]_vars

(***************************************************************************)
(* Properties of the step counter, checked under SpecTest.                 *)
(***************************************************************************)
\* a rebalance call made by the test loop has returned
LoopRebalanceReturned == tpc = "rebalance" /\ tpc' = "env_step"

\* a caller outside the test loop has called rebalance
DirectRebalance == tpc \in {"idle", "done"} /\ tpc' = tpc /\ out' # out

\* C1: the step counter starts at 0 and each call to rebalance increases it
\* by exactly 1.
C1_RebalanceCountsStep ==
    [][(LoopRebalanceReturned \/ DirectRebalance) => step' = step + 1]_vars

\* C1, amended: a call to rebalance leaves the step counter as it is; the
\* test loop sets it to 0 when it starts and adds exactly 1 in each pass,
\* after the rebalance and env.step calls of that pass.
C1_TestLoopCountsStep ==
    [][/\ (tpc = "rebalance" => step' = step)
       /\ ((tpc \in {"idle", "done"} /\ tpc' = tpc) => step' = step)
       /\ ((tpc \in {"idle", "done"} /\ tpc' = "rebalance") => step' = 0)
       /\ ((tpc = "env_step" /\ env_steps' = env_steps + 1) =>
              (step' = step + 1 /\ step' = env_steps'))]_vars

\* the loop is in its second pass: one rebalance and one env.step are done
C1_Witness ==
    /\ tpc = "rebalance"
    /\ out.tag = "value"
    /\ env_steps = 1
    /\ step = 1

(***************************************************************************)
(* Properties of rebalance and set_params, checked under SpecParams.       *)
(***************************************************************************)
\* C2: for every strategy the vector returned by rebalance while the step
\* counter is 0 sums to 1 and has its last (fiat) entry equal to 0.
C2_StepZeroRiskyOnly ==
    (out.tag = "value" /\ out.st = 0) =>
        /\ VSum(out.vec) = One
        /\ out.vec[Len(out.vec)] = Zero

\* C3: after any sequence of set_params and rebalance calls, every vector
\* returned by rebalance has non-negative entries that sum to 1.
C3_OutputIsPortfolio ==
    out.tag = "value" => IsSimplex(out.vec)

C26_SetParamsAllOrNothing ==
    [][(sp' # sp /\ sp'.exc # "none") => hp' = hp]_vars

\* C29: a CWMR agent's confidence is always within [0, 1]: theta is never
\* derived from a confidence outside the interval, set_params rejecting
\* such a value as the constructor does.
C29_ConfidenceInRange ==
    cls = "CWMR" => hp.theta # Undef

\* C10: a PAMR variant outside PAMR0, PAMR1, PAMR2 is rejected when it is
\* supplied, and no rebalance call completes while the strategy holds one.
C10_VariantRejected ==
    cls = "PAMR" =>
        /\ ((sp.called /\ sp.exc = "none") => hp.variant \in KnownVariants)
        /\ (out.tag = "value" => hp.variant \in KnownVariants)

(***************************************************************************)
(* Properties of the update rules, checked under SpecRules.                *)
(***************************************************************************)
\* PAMR.update has returned for a variant it knows
PAMR_updated ==
    /\ rule_call.fn = "PAMR.update"
    /\ rule_call.res.tag = "value"
    /\ hp.variant \in KnownVariants

\* the previous portfolio b and the prediction x of that call
PAMR_b == rule_call.args.b
PAMR_x == rule_call.args.x

\* C11: in PAMR.update, for each of the variants PAMR0, PAMR1, PAMR2 with a
\* positive C, if b.x <= eps then the multiplier is 0 and the portfolio
\* returned is the simplex projection of the unmodified b.
C11_PassiveWhenNoViolation ==
    (PAMR_updated /\ RLess(Zero, hp.C) /\ RLeq(Dot(PAMR_b, PAMR_x), hp.eps)) =>
        /\ PAMR_lam(hp, PAMR_b, PAMR_x) = Zero
        /\ rule_call.res.vec = simplex_proj(PAMR_b)

\* PAMR.update has returned for b.x strictly below eps, with a prediction
\* that is not constant and a portfolio that is not spread evenly
C11_Witness ==
    /\ PAMR_updated
    /\ RLess(Dot(PAMR_b, PAMR_x), hp.eps)
    /\ SqDev(PAMR_x) # Zero
    /\ SqDev(PAMR_b) # Zero

(***************************************************************************)
(* Properties of predict, checked under SpecPredict.                       *)
(***************************************************************************)
\* C12: for every strategy, predict leaves all persistent attributes of the
\* strategy unchanged, and two predict calls on the same observation return
\* the same result, whatever rebalance and predict calls were made between
\* them.
C12_PredictIsPure ==
    [][pred'.tick # pred.tick =>
          /\ hp' = hp
          /\ step' = step
          /\ sub_step' = sub_step
          /\ ((pred.called /\ pred'.obs = pred.obs) =>
                 (pred'.val = pred.val /\ pred'.exc = pred.exc))]_vars

(***************************************************************************)
(* Properties of Pipeline, checked under SpecTest.                         *)
(***************************************************************************)
\* C13: whenever Pipeline.rebalance invokes factor.rebalance or
\* risk.rebalance, the step counter of the sub-strategy equals the step
\* counter of the pipeline, at every step and also after the pipeline's
\* counter was reset to 0 for a new episode.
C13_SubStepsShared ==
    [][(cls = "Pipeline" /\ step # 0 /\ (LoopRebalanceReturned \/ DirectRebalance)) =>
          sub_step = <<step, step>>]_vars

(***************************************************************************)
(* Properties of the test loop, checked under SpecTest.                    *)
(***************************************************************************)
\* C15: in the test loop, after every env.step both the out-of-data flag
\* and the error flag of the status are acted on: the episode stops at the
\* first step whose status has either flag set, and the loop makes no
\* further rebalance or env.step call after that step.
C15_FlagsStopEpisode ==
    (status.OOD \/ status.Error) =>
        /\ tpc = "done"
        /\ test_result.kind \in {"return", "return_none"}
        /\ (status.OOD => test_result = [kind |-> "return", value |-> episode_reward,
                                         exc |-> "none"])

\* an episode was stopped before its step limit by the error flag alone
C15_Witness ==
    /\ status.Error
    /\ ~status.OOD
    /\ tpc = "done"
    /\ env_steps = 1
    /\ nb_max_episode_steps = 2

\* the products of k rewards
RECURSIVE RewardProducts(_)
RewardProducts(k) ==
    IF k = 0 THEN {1}
    ELSE {p * reward : p \in RewardProducts(k - 1), reward \in Rewards}

\* C28: the test loop of one episode with nb_max_episode_steps = N >= 1
\* terminates within N passes: it makes at most N env.step calls and is
\* over once N are made.  The step counter equals the number of env.step
\* calls made so far in the episode, the episode reward is the product of
\* one reward per env.step call, and the value returned when the loop ends
\* through the out-of-data flag or the step limit is that product.
C28_LoopBoundedAndRewardIsProduct ==
    tpc # "idle" =>
        /\ nb_max_episode_steps >= 1
        /\ env_steps <= nb_max_episode_steps
        /\ step = env_steps
        /\ episode_reward \in RewardProducts(env_steps)
        /\ (tpc \in {"rebalance", "env_step"} => env_steps < nb_max_episode_steps)
        /\ ((tpc = "done" /\ (status.OOD \/ env_steps = nb_max_episode_steps)) =>
               test_result = [kind |-> "return", value |-> episode_reward,
                              exc |-> "none"])

\* an episode of two steps has ended at its step limit and returned the
\* product of two rewards of 2
C28_Witness ==
    /\ tpc = "done"
    /\ nb_max_episode_steps = 2
    /\ env_steps = 2
    /\ ~status.OOD
    /\ test_result = [kind |-> "return", value |-> 4, exc |-> "none"]

\* C16: if rebalance or env.step raises an exception other than an operator
\* cancellation inside the test loop, the loop stops, the same exception
\* propagates to the caller of test, and no further env.step is made.
C16_ExceptionPropagates ==
    status.exc # "none" =>
        /\ tpc = "done"
        /\ test_result = [kind |-> "raise", value |-> 0, exc |-> status.exc]

\* a rebalance call of the second pass of the loop has raised
C16_Witness ==
    /\ status.exc = "TypeError"
    /\ out.tag = "raise"
    /\ env_steps = 1
    /\ tpc = "done"

\* the extremes find_pattern sees in the series it was called with, and
\* the four legs between the last five of them
C19_extremes == find_extreme(hp, rule_call.args.obs)
C19_legs ==
    IF C19_extremes.exc # "none" THEN C19_extremes ELSE calc_intervals(C19_extremes.val)

\* C19: HarmonicTrader.find_pattern never raises for lack of data: for a
\* series with fewer than five extrema (the last point included) it returns
\* 0; its result is always one of -1, 0, 1, and it is +1 or -1 only when
\* the four legs XA, AB, BC, CD strictly alternate in sign and the three
\* ratio tests pass.
C19_FindPatternTotal ==
    (rule_call.fn = "find_pattern" /\ rule_call.res # Pending) =>
        /\ rule_call.res.tag = "value"
        /\ rule_call.res.val \in {-1, 0, 1}
        /\ (C19_legs.exc # "none" => rule_call.res.val = 0)
        /\ (rule_call.res.val # 0 =>
               /\ RatiosPass(hp, PatternRatios[rule_call.args.c], C19_legs.val)
               /\ \A m \in 1..3 : C19_legs.val[m] * C19_legs.val[m + 1] < 0)

\* find_pattern has found a pattern
C19_WitnessPattern ==
    /\ rule_call.fn = "find_pattern"
    /\ rule_call.res # Pending
    /\ rule_call.res.val = 1

\* find_pattern was called with a series that has extrema, but fewer than
\* five, and has returned
C19_Witness ==
    /\ rule_call.fn = "find_pattern"
    /\ rule_call.res # Pending
    /\ rule_call.args.obs # <<>>
    /\ Len(C19_extremes.val) \in 2..4

\* C21: in every Flipflop update the regime stays in {0, 1}, only the
\* accumulator of the regime active at the start changes (by the gap), the
\* regime flips exactly when that accumulator then exceeds scale[regime]
\* times the other one, and afterwards the learning rate is 1e3 in regime 0
\* and ln(n) / delta[1] in regime 1.
C21_FlipflopRegime ==
    [][(cls = "Flipflop" /\ rule_call'.args.n # rule_call.args.n) =>
         LET r == hp.regime
             acc == RAdd(hp.delta[r + 1], rule_call'.args.gap)
         IN  /\ hp'.regime \in {0, 1}
             /\ hp'.delta[2 - r] = hp.delta[2 - r]
             /\ hp'.delta[r + 1] = acc
             /\ (hp'.regime # r) <=> RLess(RMul(hp.scale[r + 1], hp.delta[2 - r]), acc)
             /\ (hp'.lr = R(1000, 1)) <=> (hp'.regime = 0)
             /\ hp'.regime = 1 => hp'.lr = FloatDiv(Ln(NPairs), hp'.delta[2])]_vars

\* a Flipflop agent has flipped to regime 1 and back to regime 0
C21_Witness ==
    /\ cls = "Flipflop"
    /\ rule_call.args.n >= 2
    /\ hp.regime = 0
    /\ hp.delta[2] # R(1, 1000)

\* C22: every NRS update takes exactly one of the actions follow and
\* pursuit; follow is taken exactly when the portfolio is within tolerance
\* of the best-scoring expert, and under follow the portfolio adopted is
\* the projection of the expert vector that was tested for closeness.
C22_FollowAdoptsTestedExpert ==
    (rule_call.fn = "NRS.update" /\ rule_call.res # Pending) =>
        /\ rule_call.res.action \in {"follow", "pursuit"}
        /\ (rule_call.res.action = "follow" =>
               rule_call.res.vec = simplex_proj(rule_call.res.best_w))

\* C23: OLMAR.update moves the portfolio only to restore b.x >= eps: when
\* b.x >= eps already holds, lambda is 0 and the result is the simplex
\* projection of the unmodified b; lambda is positive only when b.x < eps.
C23_OLMARPassiveWhenSatisfied ==
    (rule_call.fn = "OLMAR.update" /\ rule_call.res # Pending) =>
        LET xt == Dot(rule_call.args.b, rule_call.args.x) IN
        /\ (RLeq(hp.eps, xt) =>
               /\ rule_call.res.lam = Zero
               /\ rule_call.res.vec = simplex_proj(rule_call.args.b))
        /\ (RLess(Zero, rule_call.res.lam) => RLess(xt, hp.eps))

\* C24: after the step counter is reset to 0 a used agent behaves like a
\* fresh one: in the second episode the used OGS agent and a newly
\* constructed one return the same portfolio at every call.
C24_ResetEqualsFresh ==
    (rule_call.fn = "OGS.rebalance" /\ hp.episode = 2 /\ rule_call.res # Pending) =>
        rule_call.res.used = rule_call.res.fresh

\* C27: on a class that overrides none of them, predict, rebalance and
\* set_params each raise NotImplementedError; none returns a value.
C27_ContractMethodsRaise ==
    (cls = "APrioriAgent" /\ rule_call.res # Pending) =>
        (rule_call.res.tag = "raise" /\ rule_call.res.exc = "NotImplementedError")

\* C30: for ORAMW, set_params(window=W) leaves the agent with the same
\* internal window as constructing it with window=W.
C30_WindowSameBothWays ==
    (rule_call.fn = "ORAMW.window" /\ rule_call.res # Pending) =>
        rule_call.res.set = rule_call.res.ctor

\* C20: on a freshly constructed ONS agent the first rebalance call
\* (step 0) succeeds and returns the initial allocation, having created A
\* and b.
C20_FirstRebalanceSucceeds ==
    (cls = "ONS" /\ out.tag # "none" /\ out.st = 0) =>
        (out.tag = "value" /\ out.vec = InitialAllocation)

\* C18: a PAMR agent constructed with variant "PAMR", the first of the
\* three variant names its constructor documents, performs its update at
\* every step >= 1 and returns a portfolio without raising.
C18_DocumentedVariantUpdates ==
    (cls = "PAMR" /\ hp.variant = "PAMR" /\ out.tag # "none" /\ out.st >= 1) =>
        out.tag = "value"

\* C17: every division of an update rule whose denominator can be zero goes
\* through safe_div; in particular the learning rate that AdaHedge.update
\* computes as ln(n) / delta is never infinite or NaN, also when delta is 0.
C17_DivisionsAreSafe ==
    (rule_call.fn = "AdaHedge.update" /\ rule_call.res.tag = "value") =>
        IsFinite(rule_call.res.lr)

=============================================================================
